---- MODULE Spec2Model ----
(***************************************************************************)
(* A model of main.py, the British Airways review scraper: clean_text,     *)
(* extract_review_details, parse_single_review, parse_page and             *)
(* scrape_all_reviews.                                                     *)
(*                                                                         *)
(* A Python str is a sequence of characters; a character is a one-element  *)
(* TLA+ string, and a character outside ASCII is written by its name       *)
(* ("LDQUO" is U+201C).  A dict is a function from its keys (character     *)
(* sequences) to its values.                                               *)
(***************************************************************************)
EXTENDS Naturals, Sequences, FiniteSets

VARIABLES
    text,         \* clean_text: the argument
    cleaned,      \* clean_text(text)
    recleaned,    \* clean_text(clean_text(text))
    cleanPc,      \* "input", "cleaned", "recleaned"; "off" when clean_text is not the entry point
    review,       \* parse_single_review, extract_review_details: the argument
    details,      \* extract_review_details(review)
    review_data,  \* parse_single_review(review)
    parsePc,      \* "input", "extracted", "parsed"; "off" when neither is the entry point
    pages,        \* scrape_all_reviews: the argument
    page,         \* the loop variable: the next index range(1, pages + 1) gives
    pc,           \* "for", "try", "sleep", "done"; "off" when scrape_all_reviews is not run
    all_reviews,  \* the accumulator
    df,           \* what scrape_all_reviews returned, once pc = "done"
    calls,        \* the calls made to the outside, in order: requests.get (with
                  \* what came of it) and time.sleep
    stdout        \* the lines printed

cleanVars == <<text, cleaned, recleaned, cleanPc>>

parseVars == <<review, details, review_data, parsePc>>

scrapeVars == <<pages, page, pc, all_reviews, df, calls, stdout>>

vars == <<text, cleaned, recleaned, cleanPc, review, details, review_data, parsePc,
          pages, page, pc, all_reviews, df, calls, stdout>>

----------------------------------------------------------------------------
(* Characters *)

\* The longest clean_text argument the model draws.
MaxLen == 3

\* ASCII whitespace: what \s matches and what str.strip() removes.
Whitespace == {" ", "\t", "\n"}

\* U+201C, U+201D, U+2018, U+2019: the curly quotes of line 27.
CurlyQuotes == {"LDQUO", "RDQUO", "LSQUO", "RSQUO"}

\* Characters outside [\x00-\x7F]: the curly quotes, the check mark U+2705,
\* the cross mark U+274C and a letter with an accent.
NonAscii == CurlyQuotes \cup {"CHECK", "CROSS", "EACUTE"}

IsAscii(c) == c \notin NonAscii

----------------------------------------------------------------------------
(* str methods and re.sub calls of clean_text *)

\* str.replace(old, new) for a one-character old; new is a str.
RECURSIVE Replace(_, _, _)
Replace(s, old, new) ==
    IF s = <<>> THEN <<>>
    ELSE (IF Head(s) = old THEN new ELSE <<Head(s)>>) \o Replace(Tail(s), old, new)

RECURSIVE LStrip(_, _)
LStrip(s, chars) ==
    IF s # <<>> /\ Head(s) \in chars THEN LStrip(Tail(s), chars) ELSE s

RECURSIVE RStrip(_, _)
RStrip(s, chars) ==
    IF s # <<>> /\ s[Len(s)] \in chars THEN RStrip(SubSeq(s, 1, Len(s) - 1), chars) ELSE s

\* str.strip(chars); str.strip() is Strip(s, Whitespace).
Strip(s, chars) == RStrip(LStrip(s, chars), chars)

\* re.sub(r'[^\x00-\x7F]+', '', s)
RemoveNonAscii(s) == SelectSeq(s, IsAscii)

\* .replace(LDQUO, '"').replace(RDQUO, '"').replace(LSQUO, "'").replace(RSQUO, "'")
NormalizeQuotes(s) ==
    Replace(Replace(Replace(Replace(s, "LDQUO", <<"\"">>), "RDQUO", <<"\"">>),
                    "LSQUO", <<"'">>), "RSQUO", <<"'">>)

\* re.sub(r'\s+', ' ', s)
RECURSIVE CollapseWhitespace(_)
CollapseWhitespace(s) ==
    IF s = <<>> THEN <<>>
    ELSE IF Head(s) \in Whitespace
         THEN <<" ">> \o CollapseWhitespace(LStrip(s, Whitespace))
         ELSE <<Head(s)>> \o CollapseWhitespace(Tail(s))

\* text.strip('"').strip("'").strip()
StripQuotesAndSpaces(s) == Strip(Strip(Strip(s, {"\""}), {"'"}), Whitespace)

clean_text(s) ==
    StripQuotesAndSpaces(CollapseWhitespace(NormalizeQuotes(RemoveNonAscii(s))))

----------------------------------------------------------------------------
(* Values: a dict value is a str, an int or None.  The three are kept in   *)
(* one record shape so that any two of them can be compared.               *)

StrVal(s) == [type |-> "str", str |-> s, int |-> 0]

IntVal(n) == [type |-> "int", str |-> <<>>, int |-> n]

None == [type |-> "None", str |-> <<>>, int |-> 0]

\* {}
EmptyDict == [k \in {} |-> None]

\* d[k] = v
SetItem(d, k, v) == [x \in DOMAIN d \cup {k} |-> IF x = k THEN v ELSE d[x]]

\* A variant of update that keeps d's value on a key of both.
UpdateFirstWins(d, e) ==
    [x \in DOMAIN d \cup DOMAIN e |-> IF x \in DOMAIN d THEN d[x] ELSE e[x]]

\* d.update(e): e's value wins on a key of both.
Update(d, e) ==
    [x \in DOMAIN d \cup DOMAIN e |-> IF x \in DOMAIN e THEN e[x] ELSE d[x]]

\* sub in s
Contains(s, sub) ==
    \E i \in 0..Len(s) : i + Len(sub) <= Len(s) /\ SubSeq(s, i + 1, i + Len(sub)) = sub

----------------------------------------------------------------------------
(* The str literals of parse_single_review, as character sequences *)

S_Date == <<"D", "a", "t", "e">>

S_Author == <<"A", "u", "t", "h", "o", "r">>

S_Title == <<"T", "i", "t", "l", "e">>

S_Rating == <<"R", "a", "t", "i", "n", "g">>

S_Trip == <<"T", "r", "i", "p">>

S_Verified == <<"V", "e", "r", "i", "f", "i", "e", "d">>

S_TripVerified == S_Trip \o <<" ">> \o S_Verified

S_Review == <<"R", "e", "v", "i", "e", "w">>

S_Yes == <<"Y", "e", "s">>

S_No == <<"N", "o">>

FixedKeys == {S_Date, S_Author, S_Title, S_Rating, S_TripVerified, S_Review}

----------------------------------------------------------------------------
(* A review unit: what review.find(...) gives for each element the code    *)
(* looks up.  An element is [present, text]; the time element also says    *)
(* whether it has a datetime attribute; the ratings table is a sequence of *)
(* rows (find_all("tr")), a row a sequence of cells (find_all("td")), a    *)
(* cell its text and its span.star elements, each TRUE when its class list *)
(* has "fill".                                                             *)

Tag(s) == [present |-> TRUE, text |-> s]

NoTag == [present |-> FALSE, text |-> <<>>]

Time(s) == [present |-> TRUE, hasDatetime |-> TRUE, datetime |-> s]

TimeWithoutDatetime == [present |-> TRUE, hasDatetime |-> FALSE, datetime |-> <<>>]

NoTime == [present |-> FALSE, hasDatetime |-> FALSE, datetime |-> <<>>]

Table(rows) == [present |-> TRUE, rows |-> rows]

NoTable == [present |-> FALSE, rows |-> <<>>]

Cell(s, stars) == [text |-> s, stars |-> stars]

\* tag.get_text(strip=True) of a cell holding one text node
GetTextStripped(cell) == Strip(cell.text, Whitespace)

\* sum("fill" in star.get("class", []) for star in star_spans)
CountFilled(stars) == Cardinality({i \in DOMAIN stars : stars[i]})

\* lines 45-53: the value of a two-cell row
DetailValue(cell) ==
    IF cell.stars # <<>>
    THEN IntVal(CountFilled(cell.stars))
    ELSE StrVal(GetTextStripped(cell))

\* A variant of the loop that keeps a key's first value.
RECURSIVE DetailsOfRowsKeepFirst(_, _)
DetailsOfRowsKeepFirst(rows, d) ==
    IF rows = <<>> THEN d
    ELSE LET cols == Head(rows)
             key == GetTextStripped(cols[1])
         IN  DetailsOfRowsKeepFirst(Tail(rows),
                 IF Len(cols) = 2 /\ key \notin DOMAIN d
                 THEN SetItem(d, key, DetailValue(cols[2])) ELSE d)

\* lines 39-53: the loop over the rows, d the dict built so far
RECURSIVE DetailsOfRows(_, _)
DetailsOfRows(rows, d) ==
    IF rows = <<>> THEN d
    ELSE LET cols == Head(rows)
         IN  DetailsOfRows(Tail(rows),
                 IF Len(cols) = 2
                 THEN SetItem(d, GetTextStripped(cols[1]), DetailValue(cols[2]))
                 ELSE d)

extract_review_details(r) ==
    IF r.table.present THEN DetailsOfRows(r.table.rows, EmptyDict) ELSE EmptyDict

\* A variant with the title and the author extracted in one try block.
TitleInOneTryWithAuthor(r) ==
    IF r.h2.present /\ r.h3.present THEN clean_text(Strip(r.h2.text, Whitespace)) ELSE <<>>

\* lines 59-63
TitleOf(r) ==
    IF r.h2.present THEN clean_text(Strip(r.h2.text, Whitespace)) ELSE <<>>

\* lines 65-69: the text verbatim, None when it is empty or the element is missing
RatingOf(r) ==
    IF r.rating.present /\ r.rating.text # <<>> THEN StrVal(r.rating.text) ELSE None

\* lines 71-75
ContentOf(r) ==
    IF r.content.present
    THEN Replace(Replace(Strip(r.content.text, Whitespace), "CHECK", <<>>), "CROSS", <<>>)
    ELSE <<>>

\* lines 77-81
AuthorOf(r) ==
    IF r.h3.present THEN clean_text(Strip(r.h3.text, Whitespace)) ELSE <<>>

\* lines 83-86: find("time") is None, or has no "datetime" key, or gives it
DateOf(r) ==
    IF r.time.present /\ r.time.hasDatetime THEN r.time.datetime ELSE <<>>

\* A variant of lines 88-91 that tests the content element's raw text.
TripVerifiedOfRaw(r) ==
    IF r.content.present /\ Contains(r.content.text, S_TripVerified) THEN S_Yes ELSE S_No

\* lines 88-91: content is the str of lines 71-75
TripVerifiedOf(r) ==
    IF Contains(ContentOf(r), S_TripVerified) THEN S_Yes ELSE S_No

\* lines 97-104
FixedFields(r) ==
    [k \in FixedKeys |->
        CASE k = S_Date -> StrVal(DateOf(r))
          [] k = S_Author -> StrVal(AuthorOf(r))
          [] k = S_Title -> StrVal(TitleOf(r))
          [] k = S_Rating -> RatingOf(r)
          [] k = S_TripVerified -> StrVal(TripVerifiedOf(r))
          [] k = S_Review -> StrVal(ContentOf(r))]

parse_single_review(r) == Update(FixedFields(r), extract_review_details(r))

\* A variant that lists the page's records last unit first.
parse_page_reversed(reviews) ==
    [i \in 1..Len(reviews) |-> parse_single_review(reviews[Len(reviews) + 1 - i])]

\* lines 114-119: reviews is what find_all gives for the fetched page, in
\* document order
parse_page(reviews) == [i \in 1..Len(reviews) |-> parse_single_review(reviews[i])]

\* time.sleep(2)
PoliteDelay == 2

\* A variant of the range that stops one index early.
RangeHasNextExclusive(i, stop) == i + 1 < stop

\* range(1, stop) has an index left when the next one is i
RangeHasNext(i, stop) == i < stop

\* requests.get for page n: it raised, or the page had these review units
Get(n, raised, reviews) == [fn |-> "get", arg |-> n, raised |-> raised, reviews |-> reviews]

Sleep(seconds) == [fn |-> "sleep", arg |-> seconds, raised |-> FALSE, reviews |-> <<>>]

\* print(...): the line's text, the page and, for line 117, the count
Line(msg, n, count) == [msg |-> msg, page |-> n, count |-> count]

----------------------------------------------------------------------------
(* Bounded inputs *)

\* The sequences over S of length at most n.
RECURSIVE SeqsUpTo(_, _)
SeqsUpTo(S, n) ==
    IF n = 0 THEN {<<>>}
    ELSE LET shorter == SeqsUpTo(S, n - 1)
         IN  shorter \cup {<<c>> \o s : c \in S, s \in {t \in shorter : Len(t) = n - 1}}

----------------------------------------------------------------------------
(* parse_single_review and extract_review_details applied to a review unit *)

\* The most rows of a ratings table, stars of a cell, and fragments of a
\* review body the model draws.
MaxRows == 2

MaxStars == 2

MaxFragments == 3

S_SeatComfort == <<"S", "e", "a", "t", " ", "C", "o", "m", "f", "o", "r", "t">>

S_yes == <<"y", "e", "s">>

\* Key cells: a fixed field's name with whitespace around it, and a label.
KeyCells == {Cell(<<" ">> \o S_Date \o <<"\n">>, <<>>), Cell(S_SeatComfort, <<>>)}

\* Value cells: a text with whitespace around it, and star widgets.
ValueCells ==
    {Cell(<<"\t">> \o S_yes \o <<" ">>, <<>>)}
        \cup {Cell(<<>>, st) : st \in SeqsUpTo(BOOLEAN, MaxStars) \ {<<>>}}

\* Rows of one, two and three cells.
Rows ==
    {<<k, v>> : k \in KeyCells, v \in ValueCells}
        \cup {<<k>> : k \in KeyCells}
        \cup {<<k, Cell(S_yes, <<>>), Cell(S_yes, <<>>)>> : k \in KeyCells}

Tables == {NoTable} \cup {Table(rows) : rows \in SeqsUpTo(Rows, MaxRows)}

\* Tables with a row named as a fixed field.
CollidingTables ==
    {NoTable,
     Table(<<<<Cell(S_Date, <<>>), Cell(S_yes, <<>>)>>>>),
     Table(<<<<Cell(S_TripVerified, <<>>), Cell(S_yes, <<>>)>>,
             <<Cell(S_Review, <<>>), Cell(<<>>, <<TRUE, FALSE>>)>>>>),
     Table(<<<<Cell(S_Rating, <<>>), Cell(<<>>, <<TRUE>>)>>,
             <<Cell(S_Author, <<>>), Cell(S_yes, <<>>)>>,
             <<Cell(S_Title, <<>>), Cell(S_yes, <<>>)>>>>)}

\* Review bodies: the marker phrase, its halves and the two glyphs, in any order.
BodyFragments ==
    {S_TripVerified, S_Trip \o <<" ">>, S_Verified, <<"CHECK">>, <<"CROSS">>, <<" ">>, <<"x">>}

RECURSIVE Concat(_)
Concat(ss) == IF ss = <<>> THEN <<>> ELSE Head(ss) \o Concat(Tail(ss))

Bodies == {Concat(fs) : fs \in SeqsUpTo(BodyFragments, MaxFragments)}

\* A unit with every element: a title and an author that clean_text changes.
CompleteUnit(ratingText, table) ==
    [h2      |-> Tag(<<" ", "LDQUO", "O", "k", "RDQUO", "\n">>),
     rating  |-> Tag(ratingText),
     content |-> Tag(<<"CHECK", " ">> \o S_TripVerified \o <<" ", "|", " ", "o", "k", " ">>),
     h3      |-> Tag(<<"\n", "A", "\t", " ", "B", "\n">>),
     time    |-> Time(<<"2", "0", "2", "4">>),
     table   |-> table]

CompleteUnits == {CompleteUnit(rt, t) : rt \in {<<"7">>, <<>>}, t \in CollidingTables}

\* What a unit can lack: an element, or the time element's datetime attribute.
Parts == {"h2", "rating", "content", "h3", "time", "datetime"}

\* The unit u without the parts in missing.
Without(u, missing) ==
    [h2      |-> IF "h2" \in missing THEN NoTag ELSE u.h2,
     rating  |-> IF "rating" \in missing THEN NoTag ELSE u.rating,
     content |-> IF "content" \in missing THEN NoTag ELSE u.content,
     h3      |-> IF "h3" \in missing THEN NoTag ELSE u.h3,
     time    |-> IF "time" \in missing THEN NoTime
                 ELSE IF "datetime" \in missing THEN TimeWithoutDatetime
                 ELSE u.time,
     table   |-> u.table]

ReviewUnits ==
    {Without(u, missing) : u \in CompleteUnits, missing \in SUBSET Parts}
        \cup {[CompleteUnit(<<"7">>, t) EXCEPT !.content = Tag(b)] :
                  b \in Bodies, t \in {NoTable, Table(<<<<Cell(S_TripVerified, <<>>), Cell(S_yes, <<>>)>>>>)}}
        \cup {CompleteUnit(<<"7">>, t) : t \in Tables}

CleanOff ==
    /\ text = <<>>
    /\ cleaned = <<>>
    /\ recleaned = <<>>
    /\ cleanPc = "off"

ScrapeOff ==
    /\ pages = 0
    /\ page = 1
    /\ pc = "off"
    /\ all_reviews = <<>>
    /\ df = <<>>
    /\ calls = <<>>
    /\ stdout = <<>>

ParseOff ==
    /\ review = CompleteUnit(<<>>, NoTable)
    /\ details = EmptyDict
    /\ review_data = EmptyDict
    /\ parsePc = "off"

InitParse ==
    /\ review \in ReviewUnits
    /\ details = EmptyDict
    /\ review_data = EmptyDict
    /\ parsePc = "input"
    /\ CleanOff
    /\ ScrapeOff

CallExtractReviewDetails ==
    /\ parsePc = "input"
    /\ details' = extract_review_details(review)
    /\ parsePc' = "extracted"
    /\ UNCHANGED <<review, review_data, cleanVars, scrapeVars>>

CallParseSingleReview ==
    /\ parsePc = "extracted"
    /\ review_data' = parse_single_review(review)
    /\ parsePc' = "parsed"
    /\ UNCHANGED <<review, details, cleanVars, scrapeVars>>

NextParse == CallExtractReviewDetails \/ CallParseSingleReview

SpecParse == InitParse /\ [][NextParse]_vars

Filled(b) == b

IsGlyph(c) == c \in {"CHECK", "CROSS"}

NotGlyph(c) == ~IsGlyph(c)

\* The two-cell rows of the table, by index, and each one's key.
TwoCellRows(rows) == {i \in DOMAIN rows : Len(rows[i]) = 2}

KeyOfRow(rows, i) == Strip(rows[i][1].text, Whitespace)

\* The last two-cell row with key k.
LastRowFor(rows, k) ==
    CHOOSE i \in TwoCellRows(rows) :
        /\ KeyOfRow(rows, i) = k
        /\ \A j \in TwoCellRows(rows) : KeyOfRow(rows, j) = k => j <= i

\* C9: extract_review_details gives {} for a unit without a ratings table;
\* otherwise its keys are the trimmed first cells of the two-cell rows, and a
\* key's value comes from the last two-cell row with that key: the number of
\* filled stars (between 0 and the number of stars) when the second cell has
\* stars, the second cell's trimmed text when it has none.
C9_DetailsAreLastTwoCellRows ==
    parsePc \in {"extracted", "parsed"} =>
        IF ~review.table.present THEN details = EmptyDict
        ELSE LET rows == review.table.rows
             IN  /\ DOMAIN details = {KeyOfRow(rows, i) : i \in TwoCellRows(rows)}
                 /\ \A k \in DOMAIN details :
                      LET second == rows[LastRowFor(rows, k)][2]
                      IN  IF second.stars # <<>>
                          THEN /\ details[k] = IntVal(Len(SelectSeq(second.stars, Filled)))
                               /\ details[k].int \in 0..Len(second.stars)
                          ELSE details[k] = StrVal(Strip(second.text, Whitespace))

\* Reached: a table whose two rows have the same key, the first with two
\* stars, one filled, the second with text; the text is the key's value.
C9_Witness ==
    /\ parsePc = "extracted"
    /\ review.table.present
    /\ Len(review.table.rows) = 2
    /\ TwoCellRows(review.table.rows) = {1, 2}
    /\ KeyOfRow(review.table.rows, 1) = KeyOfRow(review.table.rows, 2)
    /\ review.table.rows[1][2].stars = <<TRUE, FALSE>>
    /\ review.table.rows[2][2].stars = <<>>
    /\ details = SetItem(EmptyDict, S_Date, StrVal(S_yes))

\* C10: the returned record is the six fixed fields with the detail table
\* merged over them: every detail-table key is in it with the detail-table
\* value, a fixed field named by a detail-table key included, and every other
\* fixed field has its extracted value.
C10_DetailsMergedOverFixedFields ==
    parsePc = "parsed" =>
        /\ DOMAIN review_data = FixedKeys \cup DOMAIN details
        /\ \A k \in DOMAIN details : review_data[k] = details[k]
        /\ \A k \in FixedKeys \ DOMAIN details : review_data[k] = FixedFields(review)[k]

\* Reached: a unit whose table has a Date row and whose time element has a
\* datetime; the record's Date is the table's value, not the datetime.
C10_Witness ==
    /\ parsePc = "parsed"
    /\ S_Date \in DOMAIN details
    /\ review.time.hasDatetime
    /\ review_data[S_Date] = details[S_Date]
    /\ review_data[S_Date] # StrVal(review.time.datetime)
    /\ review_data[S_Author] = StrVal(<<"A", " ", "B">>)

\* C5 as stated: Trip Verified is "Yes" exactly when the raw text of the
\* content element, glyphs included, contains "Trip Verified", and "No"
\* otherwise, also when there is no content element.
C5_YesIffRawBodyContains ==
    parsePc = "parsed" =>
        review_data[S_TripVerified] =
            StrVal(IF review.content.present /\ Contains(review.content.text, S_TripVerified)
                   THEN S_Yes ELSE S_No)

\* C5 amended: unless the detail table has a Trip Verified row, Trip Verified
\* is "Yes" exactly when the text of the content element with the check-mark
\* and cross-mark glyphs removed contains "Trip Verified", and "No" otherwise,
\* also when there is no content element.
C5_YesIffBodyWithoutGlyphsContains ==
    (parsePc = "parsed" /\ S_TripVerified \notin DOMAIN details) =>
        review_data[S_TripVerified] =
            StrVal(IF /\ review.content.present
                      /\ Contains(SelectSeq(review.content.text, NotGlyph), S_TripVerified)
                   THEN S_Yes ELSE S_No)

\* Reached: a body that has the phrase only once a glyph inside it is removed.
C5_Witness ==
    /\ parsePc = "parsed"
    /\ S_TripVerified \notin DOMAIN details
    /\ review.content.present
    /\ ~Contains(review.content.text, S_TripVerified)
    /\ review_data[S_TripVerified] = StrVal(S_Yes)

\* The default of a fixed field.
DefaultOf(k) ==
    CASE k = S_Rating -> None
      [] k = S_TripVerified -> StrVal(S_No)
      [] OTHER -> StrVal(<<>>)

\* Whether the unit lacks the element (or attribute) the fixed field k is read from.
Lacks(u, k) ==
    CASE k = S_Title -> ~u.h2.present
      [] k = S_Rating -> ~u.rating.present
      [] k = S_Review -> ~u.content.present
      [] k = S_TripVerified -> ~u.content.present
      [] k = S_Author -> ~u.h3.present
      [] k = S_Date -> ~(u.time.present /\ u.time.hasDatetime)

\* C6 as stated: whatever parts a unit lacks, the record has the six fixed
\* keys, a field whose element is missing has its default, and a field whose
\* element is present has the value it has in the unit with nothing missing.
C6_MissingPartsGiveDefaults ==
    parsePc = "parsed" =>
        \A u \in CompleteUnits, missing \in SUBSET Parts :
            review = Without(u, missing) =>
                /\ FixedKeys \subseteq DOMAIN review_data
                /\ \A k \in FixedKeys :
                     review_data[k] = IF Lacks(review, k) THEN DefaultOf(k)
                                      ELSE parse_single_review(u)[k]

\* C6 amended: as stated, except that a field whose element is missing has the
\* detail table's value when the table has a row with the field's name.
C6_MissingPartsGiveDefaultsUnlessDetail ==
    parsePc = "parsed" =>
        \A u \in CompleteUnits, missing \in SUBSET Parts :
            review = Without(u, missing) =>
                /\ FixedKeys \subseteq DOMAIN review_data
                /\ \A k \in FixedKeys :
                     review_data[k] = IF ~Lacks(review, k) THEN parse_single_review(u)[k]
                                      ELSE IF k \in DOMAIN details THEN details[k]
                                      ELSE DefaultOf(k)

\* Reached: a unit with the author and the datetime attribute missing and no
\* table: Author and Date are empty, Title and Rating are as extracted.
C6_Witness ==
    /\ parsePc = "parsed"
    /\ review = Without(CompleteUnit(<<"7">>, NoTable), {"h3", "datetime"})
    /\ review_data[S_Author] = StrVal(<<>>)
    /\ review_data[S_Date] = StrVal(<<>>)
    /\ review_data[S_Title] = StrVal(<<"O", "k">>)
    /\ review_data[S_Rating] = StrVal(<<"7">>)
    /\ review_data[S_TripVerified] = StrVal(S_Yes)

----------------------------------------------------------------------------
(* clean_text applied to an argument, and again to its own result *)

CleanAlphabet == {"a", " ", "\t", "\"", "'", "LDQUO", "RSQUO", "EACUTE"}

CleanInputs == SeqsUpTo(CleanAlphabet, MaxLen)

InitClean ==
    /\ text \in CleanInputs
    /\ cleaned = <<>>
    /\ recleaned = <<>>
    /\ cleanPc = "input"
    /\ ParseOff
    /\ ScrapeOff

CallCleanText ==
    /\ cleanPc = "input"
    /\ cleaned' = clean_text(text)
    /\ cleanPc' = "cleaned"
    /\ UNCHANGED <<text, recleaned, parseVars, scrapeVars>>

CallCleanTextAgain ==
    /\ cleanPc = "cleaned"
    /\ recleaned' = clean_text(cleaned)
    /\ cleanPc' = "recleaned"
    /\ UNCHANGED <<text, cleaned, parseVars, scrapeVars>>

NextClean == CallCleanText \/ CallCleanTextAgain

SpecClean == InitClean /\ [][NextClean]_vars

\* C4: clean_text is idempotent: cleaning a cleaned text changes nothing.
C4_Idempotent == cleanPc = "recleaned" => recleaned = cleaned

\* C8: every curly quote of the argument is in the result as the straight
\* quote: for an argument with a letter at both ends (nothing is stripped at
\* its edges) the result is that of the argument with its curly quotes
\* written straight.
C8_CurlyQuotesBecomeStraight ==
    (cleanPc # "input" /\ text # <<>> /\ Head(text) = "a" /\ text[Len(text)] = "a")
        => cleaned = clean_text(NormalizeQuotes(text))

----------------------------------------------------------------------------
(* scrape_all_reviews *)

\* The largest pages argument and the most review units on a page the model draws.
MaxPages == 3

MaxUnitsPerPage == 2

\* The review units a page can hold: a complete one, and one with no author,
\* an empty rating and a Date row in its table.
PageUnitA ==
    [h2      |-> Tag(<<"LDQUO", "a">>),
     rating  |-> Tag(<<"7">>),
     content |-> Tag(<<"CHECK", "x">>),
     h3      |-> Tag(<<"b", " ">>),
     time    |-> Time(<<"1">>),
     table   |-> NoTable]

PageUnitB ==
    [h2      |-> Tag(<<"a">>),
     rating  |-> Tag(<<>>),
     content |-> Tag(<<"x">>),
     h3      |-> NoTag,
     time    |-> Time(<<"1">>),
     table   |-> Table(<<<<Cell(S_Date, <<>>), Cell(<<"2">>, <<>>)>>>>)]

\* The site's reviews in document order, the two kinds of unit in turn; a
\* fetched page holds any run of consecutive ones, or none.
Listing == [i \in 1..MaxUnitsPerPage |-> IF i % 2 = 1 THEN PageUnitA ELSE PageUnitB]

PageContents == {SubSeq(Listing, i, j) : i \in 1..(MaxUnitsPerPage + 1), j \in 0..MaxUnitsPerPage}

\* line 123
Init ==
    /\ pages \in 0..MaxPages
    /\ page = 1
    /\ pc = "for"
    /\ all_reviews = <<>>
    /\ df = <<>>
    /\ calls = <<>>
    /\ stdout = <<>>
    /\ CleanOff
    /\ ParseOff

\* lines 124-125: the range gives the next index
ForNext ==
    /\ pc = "for"
    /\ RangeHasNext(page, pages + 1)
    /\ stdout' = Append(stdout, Line("Scraping page", page, 0))
    /\ pc' = "try"
    /\ UNCHANGED <<pages, page, all_reviews, df, calls, cleanVars, parseVars>>

\* lines 127-128: parse_page returns the page's records
ParsePageReturns ==
    /\ pc = "try"
    /\ \E reviews \in PageContents :
         /\ calls' = Append(calls, Get(page, FALSE, reviews))
         /\ stdout' = Append(stdout, Line("reviews found", page, Len(parse_page(reviews))))
         /\ all_reviews' = all_reviews \o parse_page(reviews)
    /\ pc' = "sleep"
    /\ UNCHANGED <<pages, page, df, cleanVars, parseVars>>

\* A variant without the try: the exception leaves scrape_all_reviews.
ParsePageRaisesAndAborts ==
    /\ pc = "try"
    /\ calls' = Append(calls, Get(page, TRUE, <<>>))
    /\ pc' = "done"
    /\ UNCHANGED <<pages, page, all_reviews, df, stdout, cleanVars, parseVars>>

\* A variant with the sleep inside the try, after extend.
ParsePageRaisesAndSkipsSleep ==
    /\ pc = "try"
    /\ calls' = Append(calls, Get(page, TRUE, <<>>))
    /\ stdout' = Append(stdout, Line("Error on page", page, 0))
    /\ page' = page + 1
    /\ pc' = "for"
    /\ UNCHANGED <<pages, all_reviews, df, cleanVars, parseVars>>

\* lines 127, 129-130: requests.get raises in parse_page
ParsePageRaises ==
    /\ pc = "try"
    /\ calls' = Append(calls, Get(page, TRUE, <<>>))
    /\ stdout' = Append(stdout, Line("Error on page", page, 0))
    /\ pc' = "sleep"
    /\ UNCHANGED <<pages, page, all_reviews, df, cleanVars, parseVars>>

\* line 131, and the range moving to its next index
PoliteSleep ==
    /\ pc = "sleep"
    /\ calls' = Append(calls, Sleep(PoliteDelay))
    /\ page' = page + 1
    /\ pc' = "for"
    /\ UNCHANGED <<pages, all_reviews, df, stdout, cleanVars, parseVars>>

\* line 134: the range is exhausted
ReturnDataFrame ==
    /\ pc = "for"
    /\ ~RangeHasNext(page, pages + 1)
    /\ df' = all_reviews
    /\ pc' = "done"
    /\ UNCHANGED <<pages, page, all_reviews, calls, stdout, cleanVars, parseVars>>

Next == ForNext \/ ParsePageReturns \/ ParsePageRaises \/ PoliteSleep \/ ReturnDataFrame

Spec == Init /\ [][Next]_vars

\* Every requests.get returns or raises, and the interpreter keeps running.
FairSpec == Spec /\ WF_vars(Next)

IsGet(c) == c.fn = "get"

IsSleep(c) == c.fn = "sleep"

Raised(c) == c.fn = "get" /\ c.raised

\* The indices requested so far, in the order of the requests.
AttemptedPages ==
    LET gets == SelectSeq(calls, IsGet) IN [i \in 1..Len(gets) |-> gets[i].arg]

\* The review units of the pages fetched without an exception, page after
\* page, each page's units in document order.
RECURSIVE UnitsFetched(_)
UnitsFetched(log) ==
    IF log = <<>> THEN <<>>
    ELSE (IF IsGet(Head(log)) /\ ~Head(log).raised THEN Head(log).reviews ELSE <<>>)
             \o UnitsFetched(Tail(log))

\* The sum of the successful pages' record counts, as line 117 prints them.
RECURSIVE CountsPrinted(_)
CountsPrinted(lines) ==
    IF lines = <<>> THEN 0
    ELSE (IF Head(lines).msg = "reviews found" THEN Head(lines).count ELSE 0)
             + CountsPrinted(Tail(lines))

IsPrefix(s, t) == Len(s) <= Len(t) /\ SubSeq(t, 1, Len(s)) = s

\* C1: a page whose parse_page raises does not abort the run: the step that
\* raises leaves the accumulator as it was and goes on to the delay, a run
\* that has returned has requested every index 1..pages whatever pages
\* raised, and after a page has raised the function still returns.
C1_FailedPageDoesNotAbort ==
    /\ [][(pc = "try" /\ Len(calls') = Len(calls) + 1 /\ Raised(calls'[Len(calls')]))
            => (all_reviews' = all_reviews /\ pc' = "sleep")]_vars
    /\ [](pc = "done" => AttemptedPages = [i \in 1..pages |-> i])
    /\ ((\E i \in DOMAIN calls : Raised(calls[i])) ~> (pc = "done"))

\* Reached: three pages, the second raised, the first and third gave
\* records, and the function returned the records of those two.
C1_Witness ==
    /\ pc = "done"
    /\ pages = 3
    /\ Len(calls) = 6
    /\ ~Raised(calls[1]) /\ Raised(calls[3]) /\ ~Raised(calls[5])
    /\ calls[1].reviews # <<>> /\ calls[5].reviews # <<>>
    /\ Len(df) = Len(calls[1].reviews) + Len(calls[5].reviews)

\* C2: the accumulator is at every moment the records of the units of the
\* pages fetched without an exception so far, in page order and, within a
\* page, in document order; it only grows at its end; and what is returned is
\* the accumulator, its length the sum of the successful pages' counts.
C2_DatasetIsConcatenation ==
    /\ [](LET units == UnitsFetched(calls)
           IN  all_reviews = [i \in 1..Len(units) |-> parse_single_review(units[i])])
    /\ [](pc = "done" => (df = all_reviews /\ Len(df) = CountsPrinted(stdout)))
    /\ [][IsPrefix(all_reviews, all_reviews')]_vars

\* Reached: a returned run with a page of two different units, a page that
\* raised and a page of one unit: three records, the two kinds in page order.
C2_Witness ==
    /\ pc = "done"
    /\ Len(df) = 3
    /\ \E i, j, k \in DOMAIN calls :
         /\ i < j /\ j < k
         /\ IsGet(calls[i]) /\ Len(calls[i].reviews) = 2
         /\ calls[i].reviews[1] # calls[i].reviews[2]
         /\ Raised(calls[j])
         /\ IsGet(calls[k]) /\ Len(calls[k].reviews) = 1
         /\ calls[k].reviews[1] = calls[i].reviews[1]
    /\ df[1] # df[2]
    /\ df[3] = df[1]

\* C3: the indices are requested in the order 1, 2, ..., each once, none
\* beyond pages; the run ends, and when it has, every index 1..pages was
\* requested, the accumulator was returned and nothing more happens; with
\* pages = 0 nothing is requested and the result is empty.
C3_EachPageOnceInOrderThenReturn ==
    /\ [](AttemptedPages = [i \in 1..Len(AttemptedPages) |-> i] /\ Len(AttemptedPages) <= pages)
    /\ [](pc = "done" =>
            /\ Len(AttemptedPages) = pages
            /\ df = all_reviews
            /\ ~ENABLED Next
            /\ (pages = 0 => (calls = <<>> /\ df = <<>>)))
    /\ <>(pc = "done")

\* Reached: a returned run over three pages whose first page raised.
C3_Witness ==
    /\ pc = "done"
    /\ pages = 3
    /\ AttemptedPages = <<1, 2, 3>>
    /\ Raised(calls[1])
    /\ df = all_reviews /\ df # <<>>

\* C7: every request is followed by one sleep of the fixed delay before the
\* next request or the return, whether the request raised or not: the calls
\* alternate get, sleep, get, sleep, ..., and a returned run has slept pages
\* times.
C7_DelayAfterEveryAttempt ==
    /\ \A i \in DOMAIN calls :
         IF i % 2 = 1 THEN IsGet(calls[i]) ELSE calls[i] = Sleep(PoliteDelay)
    /\ pc \in {"for", "done"} => Len(calls) % 2 = 0
    /\ pc = "done" => Len(SelectSeq(calls, IsSleep)) = pages

\* Reached: a returned run of two pages, the first raised, the second did
\* not, each followed by its sleep.
C7_Witness ==
    /\ pc = "done"
    /\ pages = 2
    /\ Raised(calls[1]) /\ IsSleep(calls[2])
    /\ IsGet(calls[3]) /\ ~calls[3].raised /\ IsSleep(calls[4])
    /\ Len(calls) = 4

====
